---- MODULE Spec2Model ----
(***************************************************************************)
(* Model of flatpak-external-data-checker:                                 *)
(*   - ManifestChecker (src/checker.py): manifest loading, check(),        *)
(*     update_manifests();                                                 *)
(*   - the network helpers of src/lib/utils.py: _extract_timestamp,        *)
(*     strip_query, get_timestamp_from_url, get_extra_data_info_from_url   *)
(*     with its tenacity retry policy.                                     *)
(* Paths and URLs are strings; TLC evaluates Len, SubSeq and \o on them.   *)
(***************************************************************************)
EXTENDS Integers, Sequences, FiniteSets, TLC

VARIABLES
    \* ---- ManifestChecker ----
    pc,                 \* position of the caller: new, loaded, checking, checked, ...
    files,              \* the manifest files on disk before the run: path -> parsed tree
    _manifest,          \* self._manifest
    _checkers,          \* self._checkers: sequence of strategy names
    _manifest_contents, \* self._manifest_contents: insertion-ordered dict, <<[path, contents]>>
    _external_data,     \* self._external_data: sequence of ExternalData
    subtree,            \* the in-memory source declarations: source id -> recorded version
    filter_type,        \* argument of the running check()
    i,                  \* enumerate() position in check()
    ext_data_checked,   \* check()'s result list (ids)
    check_status,       \* none | running | returned | raised
    check_error,        \* exception check() ended in
    update_calls,       \* ids of the entities whose update() was called
    update_true,        \* ids of the entities whose update() returned True
    changed,            \* update_manifests()'s local
    serialized,         \* paths _dump_manifest() returned a string for
    written,            \* paths opened with open(path, "w")
    update_status,      \* none | returned | raised
    update_error,
    \* ---- get_extra_data_info_from_url / get_timestamp_from_url ----
    f_pc,               \* idle | attempt | done
    f_call,             \* which function runs: fetch (GET, retried) or head
    f_url,              \* the url argument
    f_follow,           \* follow_redirects
    attempt_number,     \* tenacity's retry_state.attempt_number
    slept,              \* seconds spent in the retry backoff
    history,            \* what urlopen did in each attempt
    f_status,           \* none | returned | raised
    f_error,
    f_result,           \* the ExternalFile (or the timestamp) returned
    \* ---- strip_query ----
    s_pc,               \* start | once | twice
    s_url,              \* the argument
    s_out1,             \* strip_query(s_url)
    s_out2              \* strip_query(strip_query(s_url))

checkerVars == <<pc, files, _manifest, _checkers, _manifest_contents, _external_data,
                 subtree, filter_type, i, ext_data_checked, check_status, check_error,
                 update_calls, update_true, changed, serialized, written,
                 update_status, update_error>>

fetchVars == <<f_pc, f_call, f_url, f_follow, attempt_number, slept, history,
               f_status, f_error, f_result>>

stripVars == <<s_pc, s_url, s_out1, s_out2>>

vars == <<checkerVars, fetchVars, stripVars>>

None == "None"

\* ---- bounds ----
MaxModules == 2     \* length of the top-level manifest's modules list
MaxCheckers == 2    \* number of registered checking strategies
MaxTokens == 5      \* length of a query string, in tokens

(***************************************************************************)
(* Generic helpers                                                         *)
(***************************************************************************)
Range(s) == {s[k] : k \in DOMAIN s}

RECURSIVE rfind(_, _, _)
\* str.rfind(c) on s[1..k]; 0 when absent
rfind(s, c, k) ==
    IF k = 0 THEN 0
    ELSE IF SubSeq(s, k, k) = c THEN k ELSE rfind(s, c, k - 1)

RECURSIVE AllDots(_, _, _)
AllDots(s, from, to) ==
    IF from > to THEN TRUE
    ELSE SubSeq(s, from, from) = "." /\ AllDots(s, from + 1, to)

\* os.path.splitext(p)[1]
splitext(p) ==
    LET sepIndex == rfind(p, "/", Len(p))
        dotIndex == rfind(p, ".", Len(p))
    IN  IF dotIndex > sepIndex /\ ~AllDots(p, sepIndex + 1, dotIndex - 1)
        THEN SubSeq(p, dotIndex, Len(p))
        ELSE ""

RECURSIVE rstripSlash(_)
rstripSlash(s) ==
    IF Len(s) > 0 /\ SubSeq(s, Len(s), Len(s)) = "/"
    THEN rstripSlash(SubSeq(s, 1, Len(s) - 1))
    ELSE s

\* os.path.dirname(p)
dirname(p) ==
    LET head == SubSeq(p, 1, rfind(p, "/", Len(p)))
    IN  IF head # "" /\ rstripSlash(head) # "" THEN rstripSlash(head) ELSE head

\* os.path.join(a, b)
join(a, b) ==
    IF Len(b) > 0 /\ SubSeq(b, 1, 1) = "/" THEN b
    ELSE IF a = "" \/ SubSeq(a, Len(a), Len(a)) = "/" THEN a \o b
    ELSE a \o "/" \o b

(***************************************************************************)
(* The manifests on disk                                                   *)
(***************************************************************************)
Src(id, type) == [id |-> id, type |-> type, version |-> "v1"]

\* module manifests referenced by path
M1 == [sources |-> <<Src(3, "archive")>>,
       modules |-> <<[sources |-> <<Src(4, "git")>>, modules |-> <<>>]>>]
M2 == [sources |-> <<Src(5, "archive")>>, modules |-> <<>>]
M3 == [sources |-> <<Src(7, "archive")>>, modules |-> <<>>]

\* entries a top-level modules list is drawn from
RefM1 == [ref |-> "m1.json"]
RefM2 == [ref |-> "sub/m2.yml"]
Inline == [sources |-> <<Src(1, "archive"), Src(2, "git")>>,
           modules |-> <<[ref |-> "m3.json"]>>]
ModuleEntries == {RefM1, RefM2, Inline}

TopPaths == {"app/top.json", "app/top.yaml"}

FinishArgs == {<<>>, <<[arg |-> "--share=network", id |-> 0],
                       [arg |-> "--extra-data", id |-> 8]>>}

ModuleLists == {s \in UNION {[1..n -> ModuleEntries] : n \in 0..MaxModules} :
                   \A a, b \in DOMAIN s : a # b => s[a] # s[b]}

SourceIds == 1..8

CheckerNames == <<"URLChecker", "GitChecker", "JSONChecker">>

(***************************************************************************)
(* lib.externaldata                                                        *)
(***************************************************************************)
NewExternalData(id, type, version) ==
    [id |-> id, type |-> type, state |-> "UNKNOWN",
     new_version |-> None, current |-> version]

\* ExternalDataSource.from_sources
from_sources(sources) ==
    [k \in DOMAIN sources |->
        NewExternalData(sources[k].id, sources[k].type, sources[k].version)]

\* ExternalDataFinishArg.from_args
from_args(finish_args) ==
    LET extra == SelectSeq(finish_args, LAMBDA a : a.arg = "--extra-data")
    IN  [k \in DOMAIN extra |-> NewExternalData(extra[k].id, "extra-data", "v1")]

\* ExternalData.update(): the return value
update_returns(data) ==
    data.new_version # None /\ data.new_version # data.current

\* ExternalData.update(): the manifest subtree afterwards
update_subtree(data, sub) ==
    IF update_returns(data) THEN [sub EXCEPT ![data.id] = data.new_version] ELSE sub

(***************************************************************************)
(* ManifestChecker: loading                                                *)
(***************************************************************************)
\* self._manifest_contents[manifest_path] = contents
DictSet(dict, path, contents) ==
    IF \E k \in DOMAIN dict : dict[k].path = path
    THEN [k \in DOMAIN dict |->
            IF dict[k].path = path THEN [path |-> path, contents |-> contents]
            ELSE dict[k]]
    ELSE Append(dict, [path |-> path, contents |-> contents])

RECURSIVE ModuleLoop(_, _, _, _, _)
\* _get_module_data_from_json: the for loop from position k on
ModuleLoop(fs, top, mods, k, acc) ==
    IF k > Len(mods) THEN acc
    ELSE LET isStr == "ref" \in DOMAIN mods[k]
             module_path == join(dirname(top), mods[k].ref)
             module == IF isStr THEN fs[module_path] ELSE mods[k]
             contents == IF isStr THEN DictSet(acc.contents, module_path, module)
                         ELSE acc.contents
         IN  ModuleLoop(fs, top, mods, k + 1,
                        [external_data |-> acc.external_data \o from_sources(module.sources),
                         contents |-> contents])

_get_module_data_from_json(fs, top, json_data, contents) ==
    ModuleLoop(fs, top, json_data.modules, 1,
               [external_data |-> <<>>, contents |-> contents])

_get_finish_args_extra_data_from_json(json_data) ==
    from_args(json_data.finishargs)

\* __init__ : _read_manifest(self._manifest) and _collect_external_data(data)
Construct(fs, top) ==
    LET data == fs[top]
        contents0 == DictSet(<<>>, top, data)
        mod == _get_module_data_from_json(fs, top, data, contents0)
    IN  [external_data |-> mod.external_data \o _get_finish_args_extra_data_from_json(data),
         contents |-> mod.contents]

FilePaths == TopPaths \cup {"app/m1.json", "app/sub/m2.yml", "app/m3.json"}

Disk(top, mods, fin) ==
    [p \in FilePaths |->
        CASE p = "app/m1.json" -> M1
          [] p = "app/sub/m2.yml" -> M2
          [] p = "app/m3.json" -> M3
          [] OTHER -> IF p = top THEN [modules |-> mods, finishargs |-> fin]
                      ELSE [modules |-> <<>>, finishargs |-> <<>>]]

InitChecker ==
    /\ pc = "new"
    /\ \E top \in TopPaths, mods \in ModuleLists, fin \in FinishArgs :
          /\ _manifest = top
          /\ files = Disk(top, mods, fin)
    /\ \E n \in 0..MaxCheckers : _checkers = SubSeq(CheckerNames, 1, n)
    /\ _manifest_contents = <<>>
    /\ _external_data = <<>>
    /\ subtree = [s \in SourceIds |-> "v1"]
    /\ filter_type = None
    /\ i = 0
    /\ ext_data_checked = <<>>
    /\ check_status = "none"
    /\ check_error = None
    /\ update_calls = {}
    /\ update_true = {}
    /\ changed = FALSE
    /\ serialized = <<>>
    /\ written = <<>>
    /\ update_status = "none"
    /\ update_error = None

\* ManifestChecker(manifest)
Load ==
    /\ pc = "new"
    /\ LET c == Construct(files, _manifest)
       IN  /\ _external_data' = c.external_data
           /\ _manifest_contents' = c.contents
    /\ pc' = "loaded"
    /\ UNCHANGED <<files, _manifest, _checkers, subtree, filter_type, i, ext_data_checked,
                   check_status, check_error, update_calls, update_true, changed,
                   serialized, written, update_status, update_error>>
    /\ UNCHANGED <<fetchVars, stripVars>>

(***************************************************************************)
(* Checking strategies (checkers.ALL_CHECKERS): check(data) mutates        *)
(* data.state and data.new_version, or raises                              *)
(***************************************************************************)
Outcomes == {"noop", "valid", "broken", "new"}

\* the version the remote of a source serves now; source 1's is the recorded one
Remote(id) == IF id = 1 THEN "v1" ELSE "v2"

checker_check(data, outcome) ==
    CASE outcome = "valid"  -> [data EXCEPT !.state = "VALID"]
      [] outcome = "broken" -> [data EXCEPT !.state = "BROKEN"]
      [] outcome = "new"    -> [data EXCEPT !.state = "VALID", !.new_version = Remote(data.id)]
      [] OTHER              -> data

RECURSIVE RunCheckers(_, _, _)
\* for checker in self._checkers: checker.check(data) -- stops at the first raise
RunCheckers(data, outs, k) ==
    IF k > Len(outs) THEN [data |-> data, raised |-> FALSE]
    ELSE IF outs[k] = "raise" THEN [data |-> data, raised |-> TRUE]
    ELSE RunCheckers(checker_check(data, outs[k]), outs, k + 1)

(***************************************************************************)
(* ManifestChecker.check                                                   *)
(***************************************************************************)
FilterTypes == {None, "archive"}

NoCheckers_noguard(checkers) == FALSE

\* if not self._checkers
NoCheckers(checkers) == Len(checkers) = 0

\* if filter_type is not None and filter_type != data.type: continue
Filtered(ft, data) == ft # None /\ ft # data.type

frameCheck == <<files, _manifest, _checkers, _manifest_contents, subtree, update_calls,
                update_true, changed, serialized, written, update_status, update_error,
                fetchVars, stripVars>>

\* check(filter_type) is called with no strategy registered
CheckNoCheckers ==
    /\ pc = "loaded"
    /\ NoCheckers(_checkers)
    /\ \E ft \in FilterTypes : filter_type' = ft
    /\ check_status' = "raised"
    /\ check_error' = "NoManifestCheckersFound"
    /\ pc' = "checked"
    /\ UNCHANGED <<frameCheck, _external_data, i, ext_data_checked>>

\* check(filter_type) is called and enters its loop
CheckStart ==
    /\ pc = "loaded"
    /\ ~NoCheckers(_checkers)
    /\ \E ft \in FilterTypes : filter_type' = ft
    /\ ext_data_checked' = <<>>
    /\ i' = 1
    /\ check_status' = "running"
    /\ pc' = "checking"
    /\ UNCHANGED <<frameCheck, _external_data, check_error>>

\* one iteration that the type filter skips
CheckSkip ==
    /\ pc = "checking"
    /\ i <= Len(_external_data)
    /\ Filtered(filter_type, _external_data[i])
    /\ i' = i + 1
    /\ UNCHANGED <<frameCheck, pc, _external_data, filter_type, ext_data_checked,
                   check_status, check_error>>

\* one iteration in which every strategy returns
CheckData ==
    /\ pc = "checking"
    /\ i <= Len(_external_data)
    /\ ~Filtered(filter_type, _external_data[i])
    /\ \E outs \in [1..Len(_checkers) -> Outcomes] :
          LET r == RunCheckers(_external_data[i], outs, 1)
          IN  _external_data' = [_external_data EXCEPT ![i] = r.data]
    /\ ext_data_checked' = Append(ext_data_checked, _external_data[i].id)
    /\ i' = i + 1
    /\ UNCHANGED <<frameCheck, pc, filter_type, check_status, check_error>>

\* one iteration in which a strategy raises: the exception leaves check()
CheckDataRaises ==
    /\ pc = "checking"
    /\ i <= Len(_external_data)
    /\ ~Filtered(filter_type, _external_data[i])
    /\ \E outs \in [1..Len(_checkers) -> Outcomes \cup {"raise"}] :
          /\ "raise" \in Range(outs)
          /\ LET r == RunCheckers(_external_data[i], outs, 1)
             IN  _external_data' = [_external_data EXCEPT ![i] = r.data]
    /\ check_status' = "raised"
    /\ check_error' = "CheckerError"
    /\ pc' = "checked"
    /\ UNCHANGED <<frameCheck, filter_type, i, ext_data_checked>>

\* return ext_data_checked
CheckReturn ==
    /\ pc = "checking"
    /\ i > Len(_external_data)
    /\ check_status' = "returned"
    /\ pc' = "checked"
    /\ UNCHANGED <<frameCheck, _external_data, filter_type, i, ext_data_checked, check_error>>

(***************************************************************************)
(* ManifestChecker.update_manifests                                        *)
(***************************************************************************)
RECURSIVE AnyUpdate(_, _, _)
\* any(data.update() for data in self._external_data): the generator is
\* consumed up to and including the first True
AnyUpdate(datas, k, acc) ==
    IF k > Len(datas) THEN acc
    ELSE LET d == datas[k]
             acc1 == [changed |-> update_returns(d),
                      calls   |-> acc.calls \cup {d.id},
                      trues   |-> IF update_returns(d) THEN acc.trues \cup {d.id}
                                  ELSE acc.trues,
                      subtree |-> update_subtree(d, acc.subtree)]
         IN  IF update_returns(d) THEN acc1 ELSE AnyUpdate(datas, k + 1, acc1)

IfChanged_always(c) == TRUE

\* if changed:
IfChanged(c) == c

_dump_manifest_raises_yaml_only(manifest_path) ==
    splitext(manifest_path) \in {".yaml"}

\* _dump_manifest raises NotImplementedError
_dump_manifest_raises(manifest_path) ==
    splitext(manifest_path) \in {".yaml", ".yml"}

RECURSIVE WriteLoop(_, _, _)
\* for path, contents in self._manifest_contents.items()
WriteLoop(dict, k, acc) ==
    IF k > Len(dict) THEN acc
    ELSE IF _dump_manifest_raises(dict[k].path)
         THEN [acc EXCEPT !.error = "NotImplementedError"]
         ELSE WriteLoop(dict, k + 1,
                        [acc EXCEPT !.serialized = Append(@, dict[k].path),
                                    !.written = Append(@, dict[k].path)])

\* update_manifests(), called once the entities are loaded or check() returned
UpdateManifests ==
    /\ pc = "loaded" \/ (pc = "checked" /\ check_status = "returned")
    /\ LET a == AnyUpdate(_external_data, 1,
                          [changed |-> FALSE, calls |-> {}, trues |-> {},
                           subtree |-> subtree])
           w == IF IfChanged(a.changed)
                THEN WriteLoop(_manifest_contents, 1,
                               [serialized |-> <<>>, written |-> <<>>, error |-> None])
                ELSE [serialized |-> <<>>, written |-> <<>>, error |-> None]
       IN  /\ changed' = a.changed
           /\ update_calls' = a.calls
           /\ update_true' = a.trues
           /\ subtree' = a.subtree
           /\ serialized' = w.serialized
           /\ written' = w.written
           /\ update_error' = w.error
           /\ update_status' = IF w.error = None THEN "returned" ELSE "raised"
    /\ pc' = "updated"
    /\ UNCHANGED <<files, _manifest, _checkers, _manifest_contents, _external_data,
                   filter_type, i, ext_data_checked, check_status, check_error>>
    /\ UNCHANGED <<fetchVars, stripVars>>

Next ==
    \/ Load
    \/ CheckNoCheckers
    \/ CheckStart
    \/ CheckSkip
    \/ CheckData
    \/ CheckDataRaises
    \/ CheckReturn
    \/ UpdateManifests

(***************************************************************************)
(* lib.utils: string helpers                                               *)
(***************************************************************************)
RECURSIVE find(_, _, _)
\* str.find(c, k): first position >= k of the character c; 0 when absent
find(s, c, k) ==
    IF k > Len(s) THEN 0
    ELSE IF SubSeq(s, k, k) = c THEN k ELSE find(s, c, k + 1)

RECURSIVE split(_, _)
\* str.split(sep), sep one character
split(s, sep) ==
    LET j == find(s, sep, 1)
    IN  IF j = 0 THEN <<s>>
        ELSE <<SubSeq(s, 1, j - 1)>> \o split(SubSeq(s, j + 1, Len(s)), sep)

RECURSIVE Concat(_)
Concat(ss) == IF ss = <<>> THEN "" ELSE Head(ss) \o Concat(Tail(ss))

RECURSIVE JoinAmp(_)
\* '&'.join(ss)
JoinAmp(ss) ==
    IF ss = <<>> THEN ""
    ELSE IF Len(ss) = 1 THEN ss[1]
    ELSE ss[1] \o "&" \o JoinAmp(Tail(ss))

startswith(s, c) == Len(s) >= 1 /\ SubSeq(s, 1, 1) = c

\* the percent escapes of the characters the model's URLs are made of
Unescape == ("5F" :> "_") @@ ("3D" :> "=") @@ ("26" :> "&") @@ ("25" :> "%")
Escape == ("=" :> "%3D") @@ ("&" :> "%26") @@ ("%" :> "%25")

RECURSIVE unquote(_)
\* urllib.parse.unquote
unquote(s) ==
    IF s = "" THEN ""
    ELSE IF SubSeq(s, 1, 1) = "%" /\ Len(s) >= 3 /\ SubSeq(s, 2, 3) \in DOMAIN Unescape
    THEN Unescape[SubSeq(s, 2, 3)] \o unquote(SubSeq(s, 4, Len(s)))
    ELSE SubSeq(s, 1, 1) \o unquote(SubSeq(s, 2, Len(s)))

RECURSIVE quote_plus(_)
\* urllib.parse.quote_plus
quote_plus(s) ==
    IF s = "" THEN ""
    ELSE (IF SubSeq(s, 1, 1) \in DOMAIN Escape THEN Escape[SubSeq(s, 1, 1)]
          ELSE SubSeq(s, 1, 1)) \o quote_plus(SubSeq(s, 2, Len(s)))

RECURSIVE parse_pairs(_, _, _)
\* the loop of urllib.parse.parse_qsl over the '&'-separated fields
parse_pairs(fields, k, keep_blank_values) ==
    IF k > Len(fields) THEN <<>>
    ELSE LET name_value == fields[k]
             eq == find(name_value, "=", 1)
             name == IF eq = 0 THEN name_value ELSE SubSeq(name_value, 1, eq - 1)
             value == IF eq = 0 THEN "" ELSE SubSeq(name_value, eq + 1, Len(name_value))
             r == IF name_value = "" THEN <<>>
                  ELSE IF eq = 0 /\ ~keep_blank_values THEN <<>>
                  ELSE IF Len(value) > 0 \/ keep_blank_values
                       THEN << <<unquote(name), unquote(value)>> >>
                       ELSE <<>>
         IN  r \o parse_pairs(fields, k + 1, keep_blank_values)

\* urllib.parse.parse_qsl(qs, keep_blank_values)
parse_qsl(qs, keep_blank_values) == parse_pairs(split(qs, "&"), 1, keep_blank_values)

\* urllib.parse.urlencode(pairs)
urlencode(pairs) ==
    JoinAmp([k \in DOMAIN pairs |-> quote_plus(pairs[k][1]) \o "=" \o quote_plus(pairs[k][2])])

\* urllib.parse.urlparse(url), for URLs without params and fragment
urlparse(url) ==
    LET q == find(url, "?", 1)
    IN  IF q = 0 THEN [base |-> url, query |-> ""]
        ELSE [base |-> SubSeq(url, 1, q - 1), query |-> SubSeq(url, q + 1, Len(url))]

\* urllib.parse.urlunparse(parts)
urlunparse(parts) ==
    IF parts.query = "" THEN parts.base ELSE parts.base \o "?" \o parts.query

\* strip_query(url)
strip_query(url) ==
    LET parts == urlparse(url)
        qsl == parse_qsl(parts.query, FALSE)
        qsl_stripped == SelectSeq(qsl, LAMBDA kv : ~startswith(kv[1], "_"))
        query_stripped == urlencode(qsl_stripped)
    IN  IF parts.query = "" THEN url
        ELSE urlunparse([parts EXCEPT !.query = query_stripped])

(***************************************************************************)
(* strip_query applied once and twice to a URL                             *)
(***************************************************************************)
Tokens == {"a", "_", "=", "&", "%5F"}

Queries == {Concat(ts) : ts \in UNION {[1..n -> Tokens] : n \in 0..MaxTokens}}

StripUrls == {"http://h/p"} \cup {"http://h/p?" \o q : q \in Queries}

StripIdle ==
    /\ s_pc = "start"
    /\ s_url = "http://h/p"
    /\ s_out1 = None
    /\ s_out2 = None

InitStrip ==
    /\ s_pc = "start"
    /\ s_url \in StripUrls
    /\ s_out1 = None
    /\ s_out2 = None

StripOnce ==
    /\ s_pc = "start"
    /\ s_out1' = strip_query(s_url)
    /\ s_pc' = "once"
    /\ UNCHANGED <<s_url, s_out2, checkerVars, fetchVars>>

StripTwice ==
    /\ s_pc = "once"
    /\ s_out2' = strip_query(s_out1)
    /\ s_pc' = "twice"
    /\ UNCHANGED <<s_url, s_out1, checkerVars, fetchVars>>

NextStrip == StripOnce \/ StripTwice

(***************************************************************************)
(* lib.utils: _extract_timestamp                                           *)
(***************************************************************************)
Weekdays == {"Mon", "Tue", "Wed", "Thu", "Fri", "Sat", "Sun"}
Months == {"Jan", "Feb", "Mar", "Apr", "May", "Jun",
           "Jul", "Aug", "Sep", "Oct", "Nov", "Dec"}
DigitChars == {"0", "1", "2", "3", "4", "5", "6", "7", "8", "9"}

RECURSIVE isdigit(_)
isdigit(s) ==
    s # "" /\ SubSeq(s, 1, 1) \in DigitChars
           /\ (Len(s) = 1 \/ isdigit(SubSeq(s, 2, Len(s))))

\* dt.datetime.strptime(date_str, format) for the two formats of
\* _extract_timestamp, which differ in the separator around the month
strptime(date_str, format) ==
    LET sep == SubSeq(format, 7, 7)
        ok == /\ Len(date_str) = 29
              /\ SubSeq(date_str, 1, 3) \in Weekdays
              /\ SubSeq(date_str, 4, 5) = ", "
              /\ isdigit(SubSeq(date_str, 6, 7))
              /\ SubSeq(date_str, 8, 8) = sep
              /\ SubSeq(date_str, 9, 11) \in Months
              /\ SubSeq(date_str, 12, 12) = sep
              /\ isdigit(SubSeq(date_str, 13, 16))
              /\ SubSeq(date_str, 17, 17) = " "
              /\ isdigit(SubSeq(date_str, 18, 19))
              /\ SubSeq(date_str, 20, 20) = ":"
              /\ isdigit(SubSeq(date_str, 21, 22))
              /\ SubSeq(date_str, 23, 23) = ":"
              /\ isdigit(SubSeq(date_str, 24, 25))
              /\ SubSeq(date_str, 26, 26) = " "
              /\ SubSeq(date_str, 27, 29) \in {"GMT", "UTC"}
    IN  IF ok
        THEN [ok |-> TRUE, error |-> None,
              value |-> SubSeq(date_str, 13, 16) \o "-" \o SubSeq(date_str, 9, 11)
                           \o "-" \o SubSeq(date_str, 6, 7) \o " "
                           \o SubSeq(date_str, 18, 25)]
        ELSE [ok |-> FALSE, error |-> "ValueError", value |-> None]

\* a header value that is missing (None) or empty is falsy
Truthy(h) == h # None /\ h # ""

\* _extract_timestamp(info)
_extract_timestamp(info) ==
    LET date_str == IF Truthy(info.last_modified) THEN info.last_modified ELSE info.date
        first == strptime(date_str, "%a, %d %b %Y %H:%M:%S %Z")
    IN  IF Truthy(date_str)
        THEN IF first.ok THEN first
             ELSE strptime(date_str, "%a, %d-%b-%Y %H:%M:%S %Z")
        ELSE [ok |-> TRUE, error |-> None, value |-> "now"]

(***************************************************************************)
(* lib.utils: get_timestamp_from_url, get_extra_data_info_from_url         *)
(***************************************************************************)
StopAfterAttempt == 3
WaitFixed == 2

RECURSIVE int(_)
\* int(s) for a string of decimal digits
int(s) ==
    IF Len(s) = 1
    THEN CHOOSE d \in 0..9 : SubSeq("0123456789", d + 1, d + 1) = s
    ELSE 10 * int(SubSeq(s, 1, Len(s) - 1)) + int(SubSeq(s, Len(s), Len(s)))

DateHeaders == {None, "",
                "Wed, 21 Oct 2015 07:28:00 GMT",
                "Wed, 21-Oct-2015 07:28:00 GMT",
                "Thu, 22 Oct 2015 08:00:00 GMT",
                "2015-10-21T07:28:00Z"}

ContentLengths == {None, "12", "abc"}

FetchUrls == {"http://h/f", "http://h/f?_t=a&a=a"}

RealUrls == {"http://h/f", "http://cdn/f?_sig=a"}

\* what urlopen() can do in one call: raise, or hand back a response
Exceptions == {"ConnectionResetError", "socket.timeout", "HTTPError", "URLError"}

Responses ==
    [kind : {"response"}, real_url : RealUrls, data : {"abc"},
     last_modified : DateHeaders, date : DateHeaders, content_length : ContentLengths]

UrlopenEvents == [kind : Exceptions] \cup Responses

NoFile == [url |-> None, checksum |-> None, size |-> 0, version |-> None,
           timestamp |-> None]

retry_on_any_exception(e) == TRUE

\* retry=retry_if_exception_type((ConnectionResetError, socket.timeout))
retry_if_exception_type(e) == e \in {"ConnectionResetError", "socket.timeout"}

\* stop=stop_after_attempt(3)
stop_after_attempt(n) == n >= StopAfterAttempt

\* the body of get_extra_data_info_from_url for one urlopen() event
FetchBody(url, follow_redirects, ev) ==
    IF ev.kind # "response"
    THEN [ok |-> FALSE, error |-> ev.kind, value |-> NoFile]
    ELSE LET sizeOk == ev.content_length = None \/ isdigit(ev.content_length)
             size == IF ev.content_length # None THEN int(ev.content_length)
                     ELSE Len(ev.data)
             ts == _extract_timestamp(ev)
         IN  IF ~sizeOk \/ ~ts.ok
             THEN [ok |-> FALSE, error |-> "ValueError", value |-> NoFile]
             ELSE [ok |-> TRUE, error |-> None,
                   value |-> [url |-> strip_query(IF follow_redirects THEN ev.real_url
                                                  ELSE url),
                              checksum |-> "sha256:" \o ev.data,
                              size |-> size,
                              version |-> None,
                              timestamp |-> ts.value]]

\* the body of get_timestamp_from_url for one urlopen() event
HeadBody(ev) ==
    IF ev.kind # "response"
    THEN [ok |-> FALSE, error |-> ev.kind, value |-> NoFile]
    ELSE LET ts == _extract_timestamp(ev)
         IN  IF ts.ok THEN [ok |-> TRUE, error |-> None,
                            value |-> [NoFile EXCEPT !.timestamp = ts.value]]
             ELSE [ok |-> FALSE, error |-> "ValueError", value |-> NoFile]

FetchIdle ==
    /\ f_pc = "idle"
    /\ f_call = None
    /\ f_url = None
    /\ f_follow = TRUE
    /\ attempt_number = 0
    /\ slept = 0
    /\ history = <<>>
    /\ f_status = "none"
    /\ f_error = None
    /\ f_result = NoFile

\* get_extra_data_info_from_url(url, follow_redirects) is called
FetchCall ==
    /\ f_pc = "idle"
    /\ \E url \in FetchUrls, follow \in BOOLEAN :
          /\ f_url' = url
          /\ f_follow' = follow
    /\ f_call' = "fetch"
    /\ attempt_number' = 1
    /\ f_pc' = "attempt"
    /\ UNCHANGED <<slept, history, f_status, f_error, f_result, checkerVars, stripVars>>

\* an attempt returns: the retry wrapper returns its result
AttemptReturns ==
    /\ f_pc = "attempt"
    /\ \E ev \in UrlopenEvents :
          LET r == FetchBody(f_url, f_follow, ev)
          IN  /\ r.ok
              /\ history' = Append(history, ev)
              /\ f_result' = r.value
    /\ f_status' = "returned"
    /\ f_pc' = "done"
    /\ UNCHANGED <<f_call, f_url, f_follow, attempt_number, slept, f_error,
                   checkerVars, stripVars>>

\* an attempt raises an exception the retry predicate rejects: it is re-raised
AttemptReraises ==
    /\ f_pc = "attempt"
    /\ \E ev \in UrlopenEvents :
          LET r == FetchBody(f_url, f_follow, ev)
          IN  /\ ~r.ok
              /\ ~retry_if_exception_type(r.error)
              /\ history' = Append(history, ev)
              /\ f_error' = r.error
    /\ f_status' = "raised"
    /\ f_pc' = "done"
    /\ UNCHANGED <<f_call, f_url, f_follow, attempt_number, slept, f_result,
                   checkerVars, stripVars>>

\* an attempt raises a retried exception and the stop condition holds: RetryError
AttemptExhausted ==
    /\ f_pc = "attempt"
    /\ stop_after_attempt(attempt_number)
    /\ \E ev \in UrlopenEvents :
          LET r == FetchBody(f_url, f_follow, ev)
          IN  /\ ~r.ok
              /\ retry_if_exception_type(r.error)
              /\ history' = Append(history, ev)
    /\ f_error' = "RetryError"
    /\ f_status' = "raised"
    /\ f_pc' = "done"
    /\ UNCHANGED <<f_call, f_url, f_follow, attempt_number, slept, f_result,
                   checkerVars, stripVars>>

\* an attempt raises a retried exception: sleep wait_fixed(2), then try again
AttemptRetries ==
    /\ f_pc = "attempt"
    /\ ~stop_after_attempt(attempt_number)
    /\ \E ev \in UrlopenEvents :
          LET r == FetchBody(f_url, f_follow, ev)
          IN  /\ ~r.ok
              /\ retry_if_exception_type(r.error)
              /\ history' = Append(history, ev)
    /\ slept' = slept + WaitFixed
    /\ attempt_number' = attempt_number + 1
    /\ UNCHANGED <<f_pc, f_call, f_url, f_follow, f_status, f_error, f_result,
                   checkerVars, stripVars>>

\* get_timestamp_from_url(url): one HEAD request, no retry
HeadCall ==
    /\ f_pc = "idle"
    /\ \E url \in FetchUrls : f_url' = url
    /\ \E ev \in UrlopenEvents :
          LET r == HeadBody(ev)
          IN  /\ history' = <<ev>>
              /\ f_status' = IF r.ok THEN "returned" ELSE "raised"
              /\ f_error' = r.error
              /\ f_result' = r.value
    /\ f_call' = "head"
    /\ attempt_number' = 1
    /\ f_pc' = "done"
    /\ UNCHANGED <<f_follow, slept, checkerVars, stripVars>>

NextFetch ==
    \/ FetchCall
    \/ AttemptReturns
    \/ AttemptReraises
    \/ AttemptExhausted
    \/ AttemptRetries
    \/ HeadCall

CheckerIdle ==
    /\ InitChecker
    /\ _manifest = "app/top.json"
    /\ files = Disk("app/top.json", <<>>, <<>>)
    /\ _checkers = <<>>

InitFetch == CheckerIdle /\ FetchIdle /\ StripIdle

SpecFetch == InitFetch /\ [][NextFetch]_vars

InitStripQuery == CheckerIdle /\ FetchIdle /\ InitStrip

SpecStrip == InitStripQuery /\ [][NextStrip]_vars
Init == InitChecker /\ FetchIdle /\ StripIdle

Spec == Init /\ [][Next]_vars

(***************************************************************************)
(* Properties of ManifestChecker                                           *)
(***************************************************************************)
Ids(datas) == [k \in DOMAIN datas |-> datas[k].id]

HasPendingNewVersion(d) == d.new_version # None /\ d.new_version # d.current

YamlPaths == {"app/top.yaml", "app/sub/m2.yml"}

LoadedPaths == {_manifest_contents[k].path : k \in DOMAIN _manifest_contents}

RECURSIVE InlineIds(_)
\* ids of the source declarations written in the text of one module entry
InlineIds(m) ==
    IF "ref" \in DOMAIN m THEN {}
    ELSE {m.sources[k].id : k \in DOMAIN m.sources}
            \cup UNION {InlineIds(m.modules[k]) : k \in DOMAIN m.modules}

\* ids of the declarations a manifest file holds
BackedBy(path) ==
    LET t == files[path]
    IN  IF "finishargs" \in DOMAIN t
        THEN UNION {InlineIds(t.modules[k]) : k \in DOMAIN t.modules}
                \cup {t.finishargs[k].id : k \in {j \in DOMAIN t.finishargs :
                                                     t.finishargs[j].arg = "--extra-data"}}
        ELSE InlineIds(t)

RECURSIVE WalkModules(_, _)
\* sources of every module reachable from a modules list, depth-first
WalkModules(mods, k) ==
    IF k > Len(mods) THEN <<>>
    ELSE LET m == IF "ref" \in DOMAIN mods[k]
                  THEN files[join(dirname(_manifest), mods[k].ref)]
                  ELSE mods[k]
         IN  [j \in DOMAIN m.sources |-> m.sources[j].id]
                \o WalkModules(m.modules, 1)
                \o WalkModules(mods, k + 1)

ReachableSources ==
    WalkModules(files[_manifest].modules, 1)
        \o Ids(_get_finish_args_extra_data_from_json(files[_manifest]))

\* C1: after update_manifests() returns, every entity with a pending
\* new_version has had its manifest subtree rewritten, whatever its position.
C1_AllPendingUpdatesApplied ==
    update_status = "returned" =>
        \A k \in DOMAIN _external_data :
            HasPendingNewVersion(_external_data[k]) =>
                subtree[_external_data[k].id] = _external_data[k].new_version

\* C2: update_manifests() writes a manifest file only if at least one entity
\* backed by that file changed.
C2_WritesOnlyChangedFiles ==
    update_status # "none" =>
        \A k \in DOMAIN written :
            BackedBy(written[k]) \cap update_true # {}

\* C3: update_manifests() with no pending new_version writes zero files and
\* serializes no manifest.
C3_NoPendingWritesNothing ==
    (update_status # "none"
        /\ \A k \in DOMAIN _external_data : ~HasPendingNewVersion(_external_data[k]))
    => /\ update_status = "returned"
       /\ written = <<>>
       /\ serialized = <<>>
       /\ subtree = [s \in SourceIds |-> "v1"]

C3_Witness ==
    /\ update_status = "returned"
    /\ check_status = "returned"
    /\ Len(_external_data) >= 2
    /\ Len(_manifest_contents) >= 2
    /\ update_calls = Range(Ids(_external_data))
    /\ \A k \in DOMAIN _external_data : ~HasPendingNewVersion(_external_data[k])
    /\ \E k \in DOMAIN _external_data : _external_data[k].new_version # None

\* C5: a strategy that raises while checking entity i does not abort the run:
\* every later entity passing the type filter is still checked and the failing
\* entity is left BROKEN.
C5_CheckFailureContained ==
    (check_status \in {"returned", "raised"} /\ check_error = "CheckerError")
    => /\ check_status = "returned"
       /\ _external_data[i].state = "BROKEN"
       /\ \A k \in DOMAIN _external_data :
              (k > i /\ ~(filter_type # None /\ filter_type # _external_data[k].type))
                  => _external_data[k].id \in Range(ext_data_checked)

\* C6: with no strategy registered check() fails with NoManifestCheckersFound
\* before any strategy runs: no entity changes and none is reported checked.
C6_NoCheckersFailsFirst ==
    (_checkers = <<>> /\ check_status # "none")
    => /\ check_status = "raised"
       /\ check_error = "NoManifestCheckersFound"
       /\ ext_data_checked = <<>>
       /\ \A k \in DOMAIN _external_data :
              /\ _external_data[k].state = "UNKNOWN"
              /\ _external_data[k].new_version = None

C6_Witness ==
    /\ _checkers = <<>>
    /\ check_status = "raised"
    /\ check_error = "NoManifestCheckersFound"
    /\ Len(_external_data) >= 2
    /\ filter_type = "archive"

\* C7: when an entity changed and a loaded manifest is YAML, update_manifests()
\* ends in NotImplementedError and no YAML file is opened for writing.
C7_YamlUpdateFailsExplicitly ==
    (update_status # "none" /\ update_true # {} /\ LoadedPaths \cap YamlPaths # {})
    => /\ update_status = "raised"
       /\ update_error = "NotImplementedError"
       /\ Range(written) \cap YamlPaths = {}

C7_Witness ==
    /\ update_status = "raised"
    /\ update_error = "NotImplementedError"
    /\ update_true # {}
    /\ "app/sub/m2.yml" \in LoadedPaths
    /\ written = <<"app/top.json">>

\* C9: the entity list built at load holds the sources of every module
\* reachable from the top-level manifest, depth-first through nested module
\* references, followed by the finish-args pseudo-sources.
C9_EntityListIsDepthFirstWalk ==
    pc # "new" => Ids(_external_data) = ReachableSources
(***************************************************************************)
(* Properties of lib.utils                                                 *)
(***************************************************************************)
Last(seq) == seq[Len(seq)]

IsTransient(ev) == ev.kind \in {"ConnectionResetError", "socket.timeout"}

Succeeds(ev) == FetchBody(f_url, f_follow, ev).ok

\* C4: retry policy of get_extra_data_info_from_url. Two connection resets (or
\* read timeouts) followed by a success return the success; three of them end
\* the call in a failure with no fourth attempt; any other first failure
\* propagates after exactly one attempt.
C4_RetryPolicy ==
    f_call = "fetch" =>
        /\ attempt_number <= 3
        /\ Len(history) <= 3
        /\ (Len(history) \in 1..2 /\ \A k \in DOMAIN history : IsTransient(history[k]))
              => /\ f_pc = "attempt"
                 /\ attempt_number = Len(history) + 1
                 /\ slept = 2 * Len(history)
        /\ (Len(history) = 3 /\ IsTransient(history[1]) /\ IsTransient(history[2])
                /\ Succeeds(history[3]))
              => /\ f_status = "returned"
                 /\ f_result = FetchBody(f_url, f_follow, history[3]).value
        /\ (Len(history) = 3 /\ \A k \in DOMAIN history : IsTransient(history[k]))
              => /\ f_pc = "done"
                 /\ f_status = "raised"
                 /\ f_error = "RetryError"
        /\ (history # <<>> /\ history[1].kind \in {"HTTPError", "URLError"})
              => /\ Len(history) = 1
                 /\ f_pc = "done"
                 /\ f_status = "raised"
                 /\ f_error = history[1].kind

C4_Witness ==
    /\ f_call = "fetch"
    /\ Len(history) = 3
    /\ history[1].kind = "ConnectionResetError"
    /\ history[2].kind = "ConnectionResetError"
    /\ f_status = "returned"
    /\ f_result.timestamp = "2015-Oct-21 07:28:00"
    /\ slept = 4

\* the two date formats _extract_timestamp accepts
Parses(h) ==
    Truthy(h) /\ (strptime(h, "%a, %d %b %Y %H:%M:%S %Z").ok
                    \/ strptime(h, "%a, %d-%b-%Y %H:%M:%S %Z").ok)

Parsed(h) ==
    IF strptime(h, "%a, %d %b %Y %H:%M:%S %Z").ok
    THEN strptime(h, "%a, %d %b %Y %H:%M:%S %Z").value
    ELSE strptime(h, "%a, %d-%b-%Y %H:%M:%S %Z").value

FallbackTimestamp(ev) ==
    IF Parses(ev.last_modified) THEN Parsed(ev.last_modified)
    ELSE IF Parses(ev.date) THEN Parsed(ev.date)
    ELSE "now"

\* C10: a response always yields a timestamp: Last-Modified when it parses,
\* otherwise Date when that parses, otherwise the current time; a date header
\* in neither accepted format is never an error out of the fetch or HEAD call.
C10_TimestampNeverFails ==
    (f_pc = "done" /\ Last(history).kind = "response"
        /\ (f_call = "head" \/ Last(history).content_length \in {None, "12"}))
    => /\ f_status = "returned"
       /\ f_result.timestamp = FallbackTimestamp(Last(history))

\* the named parameters a URL carries, blank values included
Params(url) ==
    SelectSeq(parse_qsl(urlparse(url).query, TRUE), LAMBDA kv : kv[1] # "")

\* C8: strip_query is idempotent, keeps every parameter whose name does not
\* start with '_' (with its value, blank or not) and drops every one that does.
C8_StripQueryIdempotentKeepsOthers ==
    /\ s_pc = "twice" => s_out2 = s_out1
    /\ s_pc # "start" =>
          Params(s_out1) = SelectSeq(Params(s_url), LAMBDA kv : ~startswith(kv[1], "_"))
====
